---- MODULE Spec2Model ----
(***************************************************************************)
(* Model of the LLMWhisperer python clients.                               *)
(*   LLMWhispererClientV2.whisper / whisper_status / whisper_retrieve      *)
(*     (src/src/unstract/llmwhisperer/client_v2.py)                        *)
(*   LLMWhispererClient.whisper (src/src/unstract/llmwhisperer/client.py)  *)
(* A behaviour is one call of whisper on a fresh client.  The clock is     *)
(* counted from the moment whisper is called.  The remote service and the  *)
(* transport are the environment: every response is chosen                 *)
(* nondeterministically.                                                   *)
(***************************************************************************)
EXTENDS Integers, Sequences, FiniteSets, TLC

(* ------------------------------ bounds -------------------------------- *)
\* longest wait_timeout a caller passes (the shortest is -1)
MaxWaitTimeout == 11
\* longest time one HTTP exchange takes
MaxCallTime == 2
\* largest retry budget (max_retries) a caller asks for
MaxRetries == 2
\* latest deadline handed to the retry engine, counted from its call
MaxDeadline == 4
\* longest backoff between two attempts (retry_max_wait)
MaxBackoff == 2
\* longest api key tried, apart from the unit tests' key
MaxKeyLen == 5
\* largest y_bottom of a line
MaxY == 13

(* ------------------------- program constants -------------------------- *)
\* time.sleep(5) between two polls
PollInterval == 5
\* client-side sentinel status code
ClientError == 0 - 1
\* default of whisper's wait_timeout parameter
DefaultWaitTimeout == 180
\* default of redact_key's reveal_length parameter
DefaultRevealLength == 4
\* retry_min_wait of the client under test
RetryMinWait == 1

(* --------------------------- python dicts ----------------------------- *)
EmptyDict == [k \in {} |-> 0]

Has(d, k) == k \in DOMAIN d

\* d[k] = v
Put(d, k, v) == (k :> v) @@ d

\* a dict is "non-empty" when it has at least one key
NonEmpty(d) == DOMAIN d # {}

(* ----------------------- texts and json.loads ------------------------- *)
\* A response text is a JSON object (kind "obj", val the dict), a bare JSON
\* string literal (kind "str", val the string) or not JSON at all ("bad").
ObjText(d) == [kind |-> "obj", val |-> d]
StrText(s) == [kind |-> "str", val |-> s]
BadText(s) == [kind |-> "bad", val |-> s]

\* json.loads(text): raises JSONDecodeError on invalid JSON, otherwise the
\* decoded value, which is a dict only for a JSON object.
JsonLoads(text) ==
  IF text.kind = "bad"
  THEN [ok |-> FALSE, isdict |-> FALSE, val |-> EmptyDict]
  ELSE [ok |-> TRUE, isdict |-> text.kind = "obj", val |-> text.val]

(* --------------------- outcomes of a python call ---------------------- *)
Returned(v) == [raised |-> FALSE, exc |-> "", value |-> v]
Raised(e, v) == [raised |-> TRUE, exc |-> e, value |-> v]

\* err = json.loads(response.text); err["status_code"] = response.status_code;
\* raise LLMWhispererClientException(err)
\* json.loads may raise itself, and the item assignment raises TypeError on
\* a str.
RaiseFromResponse(resp, extra) ==
  LET j == JsonLoads(resp.text) IN
  IF ~j.ok THEN Raised("JSONDecodeError", EmptyDict)
  ELSE IF ~j.isdict THEN Raised("TypeError", EmptyDict)
  ELSE Raised("LLMWhispererClientException",
              IF extra
              THEN Put(Put(j.val, "status_code", resp.status_code), "extraction", EmptyDict)
              ELSE Put(j.val, "status_code", resp.status_code))

(* ------------------------- status strings ----------------------------- *)
\* characters of the status strings the service is modelled to send
Chars(s) ==
  CASE s = "error"      -> <<"e","r","r","o","r">>
    [] s = "accepted"   -> <<"a","c","c","e","p","t","e","d">>
    [] s = "processing" -> <<"p","r","o","c","e","s","s","i","n","g">>
    [] s = "processed"  -> <<"p","r","o","c","e","s","s","e","d">>
    [] s = "unknown"    -> <<"u","n","k","n","o","w","n">>
    [] s = "ocr_error"  -> <<"o","c","r","_","e","r","r","o","r">>
    [] OTHER            -> <<>>

\* python's  sub in s  on strings
IsSubstring(sub, s) ==
  \E i \in 0..(Len(s) - Len(sub)) : SubSeq(s, i + 1, i + Len(sub)) = sub

ServiceStatuses == {"accepted", "processing", "processed", "error", "unknown", "ocr_error"}

(* --------------------------- HTTP exchange ---------------------------- *)
\* class attribute api_timeout
ApiTimeout == 120

\* What requests.Session.send gives back: a transport-level exception
\* (err) or a response with a status code and a text.
TransportError == [err |-> TRUE, status_code |-> 0, text |-> BadText("")]
Response(code, text) == [err |-> FALSE, status_code |-> code, text |-> text]

\* one entry of the trace of what the client did to the outside world
Event(op, hash, t, source) == [op |-> op, hash |-> hash, t |-> t, source |-> source]

(* --------------------- LLMWhispererClientV2 methods ------------------- *)
\* whisper_status(whisper_hash): the outcome for a given HTTP response
whisper_status(resp) ==
  IF resp.err THEN Raised("ConnectionError", EmptyDict)
  ELSE IF resp.status_code # 200 THEN RaiseFromResponse(resp, FALSE)
  ELSE LET j == JsonLoads(resp.text) IN
       IF ~j.ok THEN Raised("JSONDecodeError", EmptyDict)
       ELSE IF ~j.isdict THEN Raised("TypeError", EmptyDict)
       ELSE Returned(Put(j.val, "status_code", resp.status_code))

\* whisper_retrieve(whisper_hash): the outcome for a given HTTP response
whisper_retrieve(resp) ==
  IF resp.err THEN Raised("ConnectionError", EmptyDict)
  ELSE IF resp.status_code # 200 THEN RaiseFromResponse(resp, FALSE)
  ELSE LET j == JsonLoads(resp.text) IN
       IF ~j.ok THEN Raised("JSONDecodeError", EmptyDict)
       ELSE Returned([status_code |-> resp.status_code, extraction |-> j.val])

\* the four results whisper builds from the 202 message while polling
FailedResult(message) ==
  Put(Put(Put(message, "status_code", ClientError),
          "message", "Whisper client operation failed"),
      "extraction", EmptyDict)

\* mutant: the job-error result is built afresh, without the 202 body
ErrorResult_Fresh(message, text) ==
  [status_code |-> ClientError, message |-> text, status |-> "error",
   extraction |-> EmptyDict]

ErrorResult(message, text) ==
  Put(Put(Put(Put(message, "status_code", ClientError),
              "message", text),
          "status", "error"),
      "extraction", EmptyDict)

\* mutant: the retrieve payload is not copied into the result
ProcessedResult_NoPayload(message, resultx) ==
  Put(Put(Put(message, "status_code", 200),
          "message", "Whisper operation completed"),
      "status", "processed")

\* mutant: the status of the result is left as the 202 body had it
ProcessedResult_NoStatus(message, resultx) ==
  Put(Put(Put(message, "status_code", 200),
          "message", "Whisper operation completed"),
      "extraction", resultx.extraction)

ProcessedResult(message, resultx) ==
  Put(Put(Put(Put(message, "status_code", 200),
              "message", "Whisper operation completed"),
          "status", "processed"),
      "extraction", resultx.extraction)

\* mutant: the timed-out result carries the message of the failed result
TimedOutResult_FailedMessage(message) ==
  Put(Put(Put(message, "status_code", ClientError),
          "message", "Whisper client operation failed"),
      "extraction", EmptyDict)

TimedOutResult(message) ==
  Put(Put(Put(message, "status_code", ClientError),
          "message", "Whisper client operation timed out"),
      "extraction", EmptyDict)

\* mutant: the guard admits an elapsed time equal to wait_timeout
LoopGuard_Inclusive(t, start, wait_timeout) == t - start <= wait_timeout

\* while time.time() - start_time < wait_timeout
LoopGuard(t, start, wait_timeout) == t - start < wait_timeout

\* mutant: a status the loop does not know ends the job as an error
StatusBranch_ElseError(status) ==
  IF status = "processing" THEN "continue"
  ELSE IF status = "error" THEN "error"
  ELSE IF IsSubstring(Chars("error"), Chars(status)) THEN "legacy_error"
  ELSE IF status = "processed" THEN "processed"
  ELSE IF status = "accepted" THEN "continue"
  ELSE "legacy_error"

\* mutant: every status the loop does not know counts as processed
StatusBranch_ElseProcessed(status) ==
  IF status = "processing" THEN "continue"
  ELSE IF status = "error" THEN "error"
  ELSE IF IsSubstring(Chars("error"), Chars(status)) THEN "legacy_error"
  ELSE "processed"

\* mutant: only the exact status "error" is an error
StatusBranch_NoLegacy(status) ==
  IF status = "processing" THEN "continue"
  ELSE IF status = "error" THEN "error"
  ELSE IF status = "processed" THEN "processed"
  ELSE "continue"

\* what one status value makes the loop body do
StatusBranch(status) ==
  IF status = "processing" THEN "continue"
  ELSE IF status = "error" THEN "error"
  ELSE IF IsSubstring(Chars("error"), Chars(status)) THEN "legacy_error"
  ELSE IF status = "processed" THEN "processed"
  ELSE "continue"

\* mutant: the legacy error branch takes the message from the service too
LoopBody_LegacyReadsMessage(message, sresp, rresp) ==
  LET st == whisper_status(sresp) IN
  IF st.raised THEN [kind |-> "raise", out |-> st, retrieved |-> FALSE]
  ELSE
    LET status == st.value
        branch == StatusBranch(status.status)
    IN
    IF status.status_code # 200
    THEN [kind |-> "return", out |-> Returned(FailedResult(message)), retrieved |-> FALSE]
    ELSE IF branch = "error"
    THEN [kind |-> "return", out |-> Returned(ErrorResult(message, status.message)),
          retrieved |-> FALSE]
    ELSE IF branch = "legacy_error"
    THEN [kind |-> "return",
          out |-> Returned(ErrorResult(message,
                                       IF Has(status, "message") THEN status.message ELSE "")),
          retrieved |-> FALSE]
    ELSE IF branch = "processed"
    THEN LET rx == whisper_retrieve(rresp) IN
         IF rx.raised THEN [kind |-> "raise", out |-> rx, retrieved |-> TRUE]
         ELSE IF rx.value.status_code = 200
         THEN [kind |-> "return", out |-> Returned(ProcessedResult(message, rx.value)),
               retrieved |-> TRUE]
         ELSE [kind |-> "return", out |-> Returned(FailedResult(message)), retrieved |-> TRUE]
    ELSE [kind |-> "continue", out |-> Returned(message), retrieved |-> FALSE]

\* One pass of the body of the polling loop, for the responses the status
\* call and (when it is made) the retrieve call get.
\*   kind: "continue" (sleep, loop), "return" or "raise"
LoopBody(message, sresp, rresp) ==
  LET st == whisper_status(sresp) IN
  IF st.raised THEN [kind |-> "raise", out |-> st, retrieved |-> FALSE]
  ELSE
    LET status == st.value
        branch == StatusBranch(status.status)
    IN
    IF status.status_code # 200
    THEN [kind |-> "return", out |-> Returned(FailedResult(message)), retrieved |-> FALSE]
    ELSE IF branch = "error"
    THEN [kind |-> "return", out |-> Returned(ErrorResult(message, status.message)),
          retrieved |-> FALSE]
    ELSE IF branch = "legacy_error"
    THEN [kind |-> "return", out |-> Returned(ErrorResult(message, status.status)),
          retrieved |-> FALSE]
    ELSE IF branch = "processed"
    THEN LET rx == whisper_retrieve(rresp) IN
         IF rx.raised THEN [kind |-> "raise", out |-> rx, retrieved |-> TRUE]
         ELSE IF rx.value.status_code = 200
         THEN [kind |-> "return", out |-> Returned(ProcessedResult(message, rx.value)),
               retrieved |-> TRUE]
         ELSE [kind |-> "return", out |-> Returned(FailedResult(message)), retrieved |-> TRUE]
    ELSE [kind |-> "continue", out |-> Returned(message), retrieved |-> FALSE]

\* mutant: the webhook / wait_for_completion check is missing
ValidateV2_NoWebhookCheck(a) ==
  IF a.url = "" /\ a.file_path = "" /\ a.stream = "none"
  THEN "Either url, stream or file_path must be provided"
  ELSE ""

\* the argument checks at the head of whisper; "" when they pass
ValidateV2(a) ==
  IF a.use_webhook # "" /\ a.wait_for_completion
  THEN "Cannot wait for completion when using webhook"
  ELSE IF a.url = "" /\ a.file_path = "" /\ a.stream = "none"
  THEN "Either url, stream or file_path must be provided"
  ELSE ""

\* mutant: a stream is preferred to a url
Source_StreamFirst(a) ==
  IF a.stream # "none" THEN "stream"
  ELSE IF a.url = "" THEN "file"
  ELSE "url"

\* which document source the request is built from
Source(a) ==
  IF a.url = ""
  THEN (IF a.stream # "none" THEN "stream" ELSE "file")
  ELSE "url"

\* whisper from its call to the end of the handling of the submit response;
\* its trace holds the opening of the file, the setting of the query
\* parameter url_in_post and the sending of the request:
\*   kind "raise" / "return" / "poll" (enter the polling loop)
SubmitStage(a, fileOk, resp) ==
  LET v == ValidateV2(a)
      src == Source(a)
      opened == IF src = "file" THEN <<Event("open", "", 0, a.file_path)>> ELSE <<>>
      flagged == IF src = "url" THEN <<Event("url_in_post", "", 0, a.url)>> ELSE <<>>
      sent == opened \o flagged \o <<Event("submit", "", a.wait_timeout, src)>>
  IN
  IF v # ""
  THEN [kind |-> "raise", log |-> <<>>,
        out |-> Raised("LLMWhispererClientException",
                       [status_code |-> ClientError, message |-> v])]
  ELSE IF src = "file" /\ ~fileOk
  THEN [kind |-> "raise", log |-> opened, out |-> Raised("FileNotFoundError", EmptyDict)]
  ELSE IF resp.err
  THEN [kind |-> "raise", log |-> sent, out |-> Raised("ConnectionError", EmptyDict)]
  ELSE IF resp.status_code # 200 /\ resp.status_code # 202
  THEN [kind |-> "raise", log |-> sent, out |-> RaiseFromResponse(resp, TRUE)]
  ELSE
    LET j == JsonLoads(resp.text) IN
    IF ~j.ok
    THEN [kind |-> "raise", log |-> sent, out |-> Raised("JSONDecodeError", EmptyDict)]
    ELSE IF ~j.isdict
    THEN [kind |-> "raise", log |-> sent, out |-> Raised("TypeError", EmptyDict)]
    ELSE IF resp.status_code = 202
    THEN LET message == Put(Put(j.val, "status_code", resp.status_code),
                            "extraction", EmptyDict)
         IN
         IF ~a.wait_for_completion
         THEN [kind |-> "return", log |-> sent, out |-> Returned(message)]
         ELSE IF ~Has(message, "whisper_hash")
         THEN [kind |-> "raise", log |-> sent, out |-> Raised("KeyError", EmptyDict)]
         ELSE [kind |-> "poll", log |-> sent, out |-> Returned(message)]
    ELSE [kind |-> "return", log |-> sent,
          out |-> Returned(Put(j.val, "status_code", resp.status_code))]

(* ---------------------- LLMWhispererClient (v1) ----------------------- *)
\* mutant: the upper limit of timeout is not checked
ValidateV1_NoUpperLimit(a) ==
  IF a.url = "" /\ a.file_path = "" /\ a.stream = "none"
  THEN "Either url, stream or file_path must be provided"
  ELSE IF a.timeout < 0
  THEN "timeout must be between 0 and 200"
  ELSE ""

\* mutant: the document source check is missing
ValidateV1_NoSourceCheck(a) ==
  IF a.timeout < 0 \/ a.timeout > 200
  THEN "timeout must be between 0 and 200"
  ELSE ""

\* the argument checks at the head of the v1 whisper; "" when they pass
ValidateV1(a) ==
  IF a.url = "" /\ a.file_path = "" /\ a.stream = "none"
  THEN "Either url, stream or file_path must be provided"
  ELSE IF a.timeout < 0 \/ a.timeout > 200
  THEN "timeout must be between 0 and 200"
  ELSE ""

\* the whole of the v1 whisper: it never polls; on 200 it returns the raw
\* text and the whisper-hash response header (here always "h1")
WhisperV1Call(a, fileOk, resp) ==
  LET v == ValidateV1(a)
      src == Source(a)
      opened == IF src = "file" THEN <<Event("open", "", 0, a.file_path)>> ELSE <<>>
      sent == opened \o <<Event("submit", "", a.timeout, src)>>
  IN
  IF v # ""
  THEN [kind |-> "raise", log |-> <<>>,
        out |-> Raised("LLMWhispererClientException",
                       [status_code |-> ClientError, message |-> v])]
  ELSE IF src = "file" /\ ~fileOk
  THEN [kind |-> "raise", log |-> opened, out |-> Raised("FileNotFoundError", EmptyDict)]
  ELSE IF resp.err
  THEN [kind |-> "raise", log |-> sent, out |-> Raised("ConnectionError", EmptyDict)]
  ELSE IF resp.status_code # 200 /\ resp.status_code # 202
  THEN [kind |-> "raise", log |-> sent, out |-> RaiseFromResponse(resp, FALSE)]
  ELSE IF resp.status_code = 202
  THEN LET j == JsonLoads(resp.text) IN
       IF ~j.ok
       THEN [kind |-> "raise", log |-> sent, out |-> Raised("JSONDecodeError", EmptyDict)]
       ELSE IF ~j.isdict
       THEN [kind |-> "raise", log |-> sent, out |-> Raised("TypeError", EmptyDict)]
       ELSE [kind |-> "return", log |-> sent,
             out |-> Returned(Put(j.val, "status_code", resp.status_code))]
  ELSE [kind |-> "return", log |-> sent,
        out |-> Returned([status_code |-> resp.status_code,
                          extracted_text |-> resp.text,
                          whisper_hash |-> "h1"])]

(* ------------------ LLMWhispererClientV2.get_usage_info --------------- *)
\* get_usage_info(): the outcome for the response of its one
\* s.send(prepared, timeout=self.api_timeout).  On 200 the decoded text is
\* returned whatever it decodes to.
get_usage_info(resp) ==
  IF resp.err THEN Raised("ConnectionError", EmptyDict)
  ELSE IF resp.status_code # 200 THEN RaiseFromResponse(resp, FALSE)
  ELSE LET j == JsonLoads(resp.text) IN
       IF ~j.ok THEN Raised("JSONDecodeError", EmptyDict) ELSE Returned(j.val)

(* ------- LLMWhispererClientV2.register_webhook / get_webhook_details --- *)
\* register_webhook(url, auth_token, webhook_name): the outcome for the
\* response of its one send; every status other than 200 raises
register_webhook(resp) ==
  IF resp.err THEN Raised("ConnectionError", EmptyDict)
  ELSE IF resp.status_code # 200 THEN RaiseFromResponse(resp, FALSE)
  ELSE LET j == JsonLoads(resp.text) IN
       IF ~j.ok THEN Raised("JSONDecodeError", EmptyDict) ELSE Returned(j.val)

\* get_webhook_details(webhook_name): likewise
get_webhook_details(resp) ==
  IF resp.err THEN Raised("ConnectionError", EmptyDict)
  ELSE IF resp.status_code # 200 THEN RaiseFromResponse(resp, FALSE)
  ELSE LET j == JsonLoads(resp.text) IN
       IF ~j.ok THEN Raised("JSONDecodeError", EmptyDict) ELSE Returned(j.val)

(* ------------------------ retry / deadline engine --------------------- *)
\* _send_request(prepared, timeout, deadline): the engine the unit tests
\* call.  Its parts are modelled from its specification.
Min(a, b) == IF a < b THEN a ELSE b

\* connection failures, timeouts, HTTP 429 and HTTP 5xx are retried
Retryable(resp) ==
  resp.err \/ resp.status_code = 429 \/ (resp.status_code >= 500 /\ resp.status_code <= 599)

\* time left until the deadline of the call a, at time t
Remaining(a, t) == a.deadline - t

\* mutant: the deadline is not looked at before an attempt
Expired_Never(a, t) == FALSE

\* the deadline check made before each attempt
Expired(a, t) == a.has_deadline /\ Remaining(a, t) <= 0

\* mutant: the deadline does not cap the timeout of an attempt
EffectiveTimeout_Uncapped(a, t) == a.timeout

\* the timeout handed to the transport for an attempt started at time t
EffectiveTimeout(a, t) ==
  IF a.has_deadline THEN Min(a.timeout, Remaining(a, t)) ELSE a.timeout

\* the retry budget is used up after n attempts
Exhausted(a, n) == n >= a.max_retries + 1

\* what the engine hands to its caller when it stops on this last exchange:
\* the response itself, or the transport error
EngineResult(resp) ==
  IF resp.err THEN Raised("ConnectionError", EmptyDict) ELSE Returned(resp)

(* --------------------------- environment ------------------------------ *)
\* what the caller passes
Urls == {"", "https://example.com/test.pdf"}
FilePaths == {"", "credit_card.pdf"}
Streams == {"none", "bytes"}
Webhooks == {"", "wb3"}
WaitTimeouts == {0 - 1, 0, PollInterval, MaxWaitTimeout}
V1Timeouts == {0 - 1, 0, 200, 201}

\* A caller that waits passes one of WaitTimeouts; one that does not wait
\* may also leave wait_timeout at its default.
ArgsV2 ==
  [url : Urls, file_path : FilePaths, stream : Streams,
   use_webhook : Webhooks, wait_for_completion : BOOLEAN,
   wait_timeout : WaitTimeouts]
  \cup
  [url : Urls, file_path : FilePaths, stream : Streams,
   use_webhook : Webhooks, wait_for_completion : {FALSE},
   wait_timeout : {DefaultWaitTimeout}]

ArgsV1 == [url : Urls, file_path : FilePaths, stream : Streams, timeout : V1Timeouts]

\* what the service sends
Payload == [result_text |-> "Test result"]
Payloads == {Payload, EmptyDict}

AcceptedBody == [message |-> "Whisper Job Accepted", status |-> "processing",
                 whisper_hash |-> "h1"]
NoHashBody == [message |-> "Whisper Job Accepted"]
SyncBody == [message |-> "done", status |-> "processed", extraction |-> Payload]
SyncBodyNoExtraction == [message |-> "done", status |-> "processed", whisper_hash |-> "h2"]

StringBody == StrText("Processing in progress")
InvalidBody == BadText("Invalid JSON response")

SubmitTexts == {ObjText(AcceptedBody), ObjText(NoHashBody), ObjText(SyncBody),
                ObjText(SyncBodyNoExtraction), StringBody, InvalidBody}
SubmitCodes == {200, 202, 400, 500}
SubmitResponses ==
  {TransportError} \cup {Response(c, t) : c \in SubmitCodes, t \in SubmitTexts}

ErrorTexts == {ObjText([message |-> "service failure"]), StringBody, InvalidBody}

StatusBody(s) == [status |-> s, message |-> "job message"]
\* a legacy error status, reported without a message
LegacyBody == [status |-> "ocr_error"]
StatusResponses ==
  {TransportError}
    \cup {Response(200, ObjText(StatusBody(s))) : s \in ServiceStatuses}
    \cup {Response(200, ObjText(LegacyBody))}
    \cup {Response(500, t) : t \in ErrorTexts}

RetrieveResponses ==
  {TransportError}
    \cup {Response(200, ObjText(p)) : p \in Payloads}
    \cup {Response(500, t) : t \in ErrorTexts}

CallTimes == 0..MaxCallTime

\* the retry budget a caller asks for
RetryBudgets == 0..MaxRetries

\* what the service sends to get_usage_info: the unit tests' bodies, and an
\* error message encoded as a bare JSON string
UsageBody == [pages_processed |-> 1]
UsageErrorBody == [error |-> "bad request"]
UsageResponses ==
  {TransportError, Response(200, ObjText(UsageBody)), Response(400, StringBody)}
    \cup {Response(c, ObjText(UsageErrorBody)) : c \in {400, 401, 429, 500}}

\* what the service sends to the webhook endpoints
WebhookBody == [message |-> "Webhook registered successfully"]
WebhookCodes == {200, 201, 400, 500}
WebhookResponses ==
  {TransportError}
    \cup {Response(c, t) : c \in WebhookCodes, t \in {ObjText(WebhookBody), StringBody}}

\* what successive attempts of one request would be answered with
Scripts == [1..(MaxRetries + 1) -> UsageResponses]

\* what _send_request is called with: a per-call timeout, and no deadline
\* or one in the future
EngineTimeouts == {1, MaxDeadline - 1}
Deadlines == {2, MaxDeadline}
EngineArgs ==
  [timeout : EngineTimeouts, has_deadline : {TRUE}, deadline : Deadlines,
   max_retries : RetryBudgets]
  \cup
  [timeout : EngineTimeouts, has_deadline : {FALSE}, deadline : {0},
   max_retries : RetryBudgets]

\* what the engine's attempts are answered with
EngineResponses ==
  {TransportError, Response(200, ObjText(UsageBody))}
    \cup {Response(c, ObjText(UsageErrorBody)) : c \in {400, 500}}

\* how long an exchange takes under a timeout, and the backoff between two
\* attempts (between retry_min_wait and retry_max_wait)
EngineCallTimes(timeout) == 0..Min(timeout, 1)
Backoffs == RetryMinWait..MaxBackoff

\* The retrieve call is made only after a status call that reports
\* "processed"; after any other one there is no retrieve response to choose.
AsksRetrieve(sresp) ==
  LET st == whisper_status(sresp) IN
  ~st.raised /\ StatusBranch(st.value.status) = "processed"
RetrieveChoices(sresp) == IF AsksRetrieve(sresp) THEN RetrieveResponses ELSE {TransportError}
RetrieveTimes(sresp) == IF AsksRetrieve(sresp) THEN CallTimes ELSE {0}

(* ------------------------------ state --------------------------------- *)
VARIABLES
  client,        \* what was called: "v1" / "v2" for the whisper of a client,
                 \* "v2.get_usage_info", "v2._send_request" ("" before)
  args,          \* the arguments of the call
  pc,            \* "idle", "polling", "returned", "raised"
  outcome,       \* what the call gave back: Returned(dict) / Raised(exc, payload)
  message,       \* whisper's local  message  while polling
  whisper_hash,  \* whisper's local  whisper_hash
  now,           \* time since whisper was called
  start_time,    \* whisper's local  start_time
  log,           \* the file opens, HTTP calls and sleeps of the call, in order
  submit,        \* the response the submit got (sequence of length <= 1)
  polls,         \* the responses the status calls got, in order
  arrived,       \* the time at which each of them arrived
  retrieves,     \* the responses the retrieve calls got, in order
  script,        \* get_usage_info: what the n-th attempt would be answered
  attempts,      \* get_usage_info, _send_request: the attempts sent, each
                 \* with its start time, its timeout and its answer
  fields,        \* the client's base_url, api_key and headers
  ops            \* two whisper operations running on the one client at the
                 \* same time: the local variables of each

vars == <<client, args, pc, outcome, message, whisper_hash, now, start_time,
          log, submit, polls, arrived, retrieves, script, attempts, fields, ops>>

NoOutcome == Returned(EmptyDict)

\* what __init__ leaves in the client
ClientFields ==
  [base_url |-> "http://localhost", api_key |-> "test-key",
   headers |-> [key |-> "test-key"]]

\* the concurrent operations; one that has not begun: its locals, and the
\* answers it has been given (to its submit, to its polls)
Operations == {1, 2}
IdleLocals ==
  [pc |-> "idle", a |-> EmptyDict, message |-> EmptyDict, whisper_hash |-> "",
   now |-> 0, start_time |-> 0, outcome |-> NoOutcome]
IdleOperation == [local |-> IdleLocals, sub |-> <<>>, hist |-> <<>>]

Init ==
  /\ client = ""
  /\ args = EmptyDict
  /\ pc = "idle"
  /\ outcome = NoOutcome
  /\ message = EmptyDict
  /\ whisper_hash = ""
  /\ now = 0
  /\ start_time = 0
  /\ log = <<>>
  /\ submit = <<>>
  /\ polls = <<>>
  /\ arrived = <<>>
  /\ retrieves = <<>>
  /\ script = <<>>
  /\ attempts = <<>>
  /\ fields = ClientFields
  /\ ops = [o \in Operations |-> IdleOperation]

\* mutant: every job is polled under the same handle
JobHandle_Fixed(msg) == "h1"

\* whisper_hash = message["whisper_hash"]: the handle the polls are keyed by
JobHandle(msg) == msg.whisper_hash

\* mutant: the answer to the submit request is not waited for
Sent_Unanswered(stage) == FALSE

\* has the stage sent the submit request
Sent(stage) == \E i \in 1..Len(stage.log) : stage.log[i].op = "submit"

\* LLMWhispererClientV2.whisper is called; runs up to its return, its raise
\* or its entry into the polling loop
WhisperV2(a, fileOk, resp, dur) ==
  LET stage == SubmitStage(a, fileOk, resp) IN
  /\ pc = "idle"
  /\ UNCHANGED <<fields, ops>>
  /\ client' = "v2"
  /\ args' = a
  /\ log' = stage.log
  /\ submit' = IF Sent(stage) THEN <<resp>> ELSE <<>>
  /\ polls' = <<>>
  /\ arrived' = <<>>
  /\ retrieves' = <<>>
  /\ UNCHANGED <<script, attempts>>
  /\ now' = IF Sent(stage) THEN dur ELSE 0
  /\ IF stage.kind = "poll"
     THEN /\ pc' = "polling"
          /\ outcome' = NoOutcome
          /\ message' = stage.out.value
          /\ whisper_hash' = JobHandle(stage.out.value)
          /\ start_time' = dur
     ELSE /\ pc' = IF stage.kind = "raise" THEN "raised" ELSE "returned"
          /\ outcome' = stage.out
          /\ message' = EmptyDict
          /\ whisper_hash' = ""
          /\ start_time' = 0

\* mutant: the loop sleeps after every status call, the last one included
Slept_Always(body) == <<Event("sleep", "", PollInterval, "")>>

\* time.sleep(5) at the foot of the loop body, reached only when no branch
\* has returned or raised
Slept(body) ==
  IF body.kind = "continue" THEN <<Event("sleep", "", PollInterval, "")>> ELSE <<>>

\* one pass of the polling loop: the guard holds, the status call is made,
\* and then the retrieve call, the sleep, the return or the raise
PollIteration(sresp, sdur, rresp, rdur) ==
  LET body == LoopBody(message, sresp, rresp)
      polled == Event("status", whisper_hash, ApiTimeout, "")
      fetched == Event("retrieve", whisper_hash, ApiTimeout, "")
      slept == Slept(body)
  IN
  /\ pc = "polling"
  /\ UNCHANGED <<fields, ops>>
  /\ LoopGuard(now, start_time, args.wait_timeout)
  /\ polls' = Append(polls, sresp)
  /\ arrived' = Append(arrived, now + sdur)
  /\ retrieves' = IF body.retrieved THEN Append(retrieves, rresp) ELSE retrieves
  /\ log' = log \o <<polled>>
              \o (IF body.retrieved THEN <<fetched>> ELSE <<>>)
              \o slept
  /\ now' = now + sdur
              + (IF body.retrieved THEN rdur ELSE 0)
              + Len(slept) * PollInterval
  /\ IF body.kind = "continue"
     THEN /\ pc' = "polling"
          /\ outcome' = outcome
          /\ message' = message
     ELSE /\ pc' = IF body.kind = "raise" THEN "raised" ELSE "returned"
          /\ outcome' = body.out
          /\ message' = IF body.kind = "raise" THEN message ELSE body.out.value
  /\ UNCHANGED <<client, args, whisper_hash, start_time, submit, script, attempts>>

\* mutant: nothing follows the loop once its guard has failed
PollTimeout_Never == FALSE /\ UNCHANGED vars

\* the loop guard fails: whisper returns the timed-out result
PollTimeout ==
  /\ pc = "polling"
  /\ UNCHANGED <<fields, ops>>
  /\ ~LoopGuard(now, start_time, args.wait_timeout)
  /\ pc' = "returned"
  /\ message' = TimedOutResult(message)
  /\ outcome' = Returned(TimedOutResult(message))
  /\ UNCHANGED <<client, args, whisper_hash, now, start_time, log, submit, polls,
                 arrived, retrieves, script, attempts>>

\* LLMWhispererClient.whisper (v1) is called and runs to its end
WhisperV1(a, fileOk, resp, dur) ==
  LET stage == WhisperV1Call(a, fileOk, resp) IN
  /\ pc = "idle"
  /\ UNCHANGED <<fields, ops>>
  /\ client' = "v1"
  /\ args' = a
  /\ log' = stage.log
  /\ submit' = IF Sent(stage) THEN <<resp>> ELSE <<>>
  /\ polls' = <<>>
  /\ arrived' = <<>>
  /\ retrieves' = <<>>
  /\ UNCHANGED <<script, attempts>>
  /\ now' = IF Sent(stage) THEN dur ELSE 0
  /\ pc' = IF stage.kind = "raise" THEN "raised" ELSE "returned"
  /\ outcome' = stage.out
  /\ message' = EmptyDict
  /\ whisper_hash' = ""
  /\ start_time' = 0

\* one attempt of a request: when it started, the timeout handed to the
\* transport, and what came back
Attempted(at, timeout, resp) == [at |-> at, timeout |-> timeout, resp |-> resp]

\* LLMWhispererClientV2.get_usage_info is called and runs to its end.  The
\* client of this version takes no retry budget: n is the budget the caller
\* wants, and sc what the service would answer to successive attempts.
GetUsageInfo(n, sc, dur) ==
  /\ pc = "idle"
  /\ UNCHANGED <<fields, ops>>
  /\ client' = "v2.get_usage_info"
  /\ args' = [max_retries |-> n]
  /\ script' = sc
  /\ attempts' = <<Attempted(0, ApiTimeout, sc[1])>>
  /\ log' = <<Event("usage", "", ApiTimeout, "")>>
  /\ now' = dur
  /\ outcome' = get_usage_info(sc[1])
  /\ pc' = IF get_usage_info(sc[1]).raised THEN "raised" ELSE "returned"
  /\ UNCHANGED <<message, whisper_hash, start_time, submit, polls, arrived, retrieves>>

\* LLMWhispererClientV2.register_webhook is called and runs to its end
RegisterWebhook(resp, dur) ==
  /\ pc = "idle"
  /\ UNCHANGED <<fields, ops>>
  /\ client' = "v2.register_webhook"
  /\ args' = [webhook_name |-> "test_webhook"]
  /\ attempts' = <<Attempted(0, ApiTimeout, resp)>>
  /\ log' = <<Event("register", "", ApiTimeout, "")>>
  /\ now' = dur
  /\ outcome' = register_webhook(resp)
  /\ pc' = IF register_webhook(resp).raised THEN "raised" ELSE "returned"
  /\ UNCHANGED <<message, whisper_hash, start_time, submit, polls, arrived, retrieves,
                 script>>

\* LLMWhispererClientV2.get_webhook_details is called and runs to its end
GetWebhookDetails(resp, dur) ==
  /\ pc = "idle"
  /\ UNCHANGED <<fields, ops>>
  /\ client' = "v2.get_webhook_details"
  /\ args' = [webhook_name |-> "test_webhook"]
  /\ attempts' = <<Attempted(0, ApiTimeout, resp)>>
  /\ log' = <<Event("details", "", ApiTimeout, "")>>
  /\ now' = dur
  /\ outcome' = get_webhook_details(resp)
  /\ pc' = IF get_webhook_details(resp).raised THEN "raised" ELSE "returned"
  /\ UNCHANGED <<message, whisper_hash, start_time, submit, polls, arrived, retrieves,
                 script>>

\* _send_request is called with a timeout, a deadline and a retry budget
SendRequest(a) ==
  /\ pc = "idle"
  /\ UNCHANGED <<fields, ops>>
  /\ client' = "v2._send_request"
  /\ args' = a
  /\ pc' = "sending"
  /\ UNCHANGED <<outcome, message, whisper_hash, now, start_time, log, submit, polls,
                 arrived, retrieves, script, attempts>>

\* the deadline has not passed: the engine makes one attempt, and then
\* stops with its answer or backs off before the next one
EngineAttempt(resp, dur, wait) ==
  LET timeout == EffectiveTimeout(args, now)
      n == Len(attempts) + 1
      stop == ~Retryable(resp) \/ Exhausted(args, n)
  IN
  /\ pc = "sending"
  /\ UNCHANGED <<fields, ops>>
  /\ ~Expired(args, now)
  /\ dur \in EngineCallTimes(timeout)
  /\ attempts' = Append(attempts, Attempted(now, timeout, resp))
  /\ log' = Append(log, Event("send", "", timeout, ""))
  /\ IF stop
     THEN /\ now' = now + dur
          /\ outcome' = EngineResult(resp)
          /\ pc' = IF resp.err THEN "raised" ELSE "returned"
     ELSE /\ now' = now + dur + wait
          /\ outcome' = outcome
          /\ pc' = "sending"
  /\ UNCHANGED <<client, args, message, whisper_hash, start_time, submit, polls,
                 arrived, retrieves, script>>

\* the deadline has passed before the next attempt: the engine stops with
\* the last answer it got
DeadlineStop ==
  /\ pc = "sending"
  /\ UNCHANGED <<fields, ops>>
  /\ Expired(args, now)
  /\ outcome' = EngineResult(attempts[Len(attempts)].resp)
  /\ pc' = IF attempts[Len(attempts)].resp.err THEN "raised" ELSE "returned"
  /\ UNCHANGED <<client, args, message, whisper_hash, now, start_time, log, submit,
                 polls, arrived, retrieves, script, attempts>>

\* the caller's choice of a call, and the environment's choice of responses
CallV2 ==
  /\ pc = "idle"
  /\ \E a \in ArgsV2, fileOk \in BOOLEAN, resp \in SubmitResponses, dur \in CallTimes :
       WhisperV2(a, fileOk, resp, dur)

CallV1 ==
  /\ pc = "idle"
  /\ \E a \in ArgsV1, fileOk \in BOOLEAN, resp \in SubmitResponses, dur \in CallTimes :
       WhisperV1(a, fileOk, resp, dur)

Poll ==
  /\ pc = "polling"
  /\ \E sresp \in StatusResponses, sdur \in CallTimes :
       \E rresp \in RetrieveChoices(sresp), rdur \in RetrieveTimes(sresp) :
         PollIteration(sresp, sdur, rresp, rdur)

CallUsage ==
  /\ pc = "idle"
  /\ \E n \in RetryBudgets, sc \in Scripts, dur \in CallTimes : GetUsageInfo(n, sc, dur)

CallRegister ==
  /\ pc = "idle"
  /\ \E resp \in WebhookResponses, dur \in CallTimes : RegisterWebhook(resp, dur)

CallDetails ==
  /\ pc = "idle"
  /\ \E resp \in WebhookResponses, dur \in CallTimes : GetWebhookDetails(resp, dur)

CallEngine ==
  /\ pc = "idle"
  /\ \E a \in EngineArgs : SendRequest(a)

Attempt ==
  /\ pc = "sending"
  /\ \E resp \in EngineResponses, dur \in 0..1, wait \in Backoffs :
       EngineAttempt(resp, dur, wait)

Next ==
  \/ CallV2
  \/ Poll
  \/ PollTimeout
  \/ CallV1
  \/ CallUsage
  \/ CallRegister
  \/ CallDetails
  \/ CallEngine
  \/ Attempt
  \/ DeadlineStop

Spec == Init /\ [][Next]_vars

\* The client runs one statement after another: when every HTTP call
\* returns or raises and the clock advances, a loop whose guard holds makes
\* its next pass and one whose guard fails falls through to the statements
\* after it.
\* a caller that waits for the result of a document given by url, and a
\* service that accepts the job
BlockingArgs ==
  {a \in ArgsV2 : /\ a.wait_for_completion
                  /\ a.use_webhook = ""
                  /\ a.url # ""
                  /\ a.file_path = ""
                  /\ a.stream = "none"}
AcceptedResponses == {Response(202, ObjText(AcceptedBody))}

CallBlocking ==
  /\ pc = "idle"
  /\ \E a \in BlockingArgs, resp \in AcceptedResponses, dur \in CallTimes :
       WhisperV2(a, TRUE, resp, dur)

NextLive == CallBlocking \/ Poll \/ PollTimeout

\* whisper of the v2 client alone, under that scheduling
SpecLive == Init /\ [][NextLive]_vars /\ WF_vars(Poll) /\ WF_vars(PollTimeout)

(* ------------- two whisper operations on one client ------------------- *)
\* Everything whisper works on is local to the call: message, whisper_hash,
\* start_time, and a requests.Session of its own.  The client's fields are
\* only read.

\* the state of the single operation, untouched here
solo == <<client, args, pc, outcome, message, whisper_hash, now, start_time,
          log, submit, polls, arrived, retrieves, script, attempts>>

\* what the two call sites pass
PairArgs(o) ==
  [url |-> IF o = 1 THEN "" ELSE "https://example.com/test.pdf",
   file_path |-> "", stream |-> IF o = 1 THEN "bytes" ELSE "none",
   use_webhook |-> "", wait_for_completion |-> TRUE, wait_timeout |-> PollInterval]

\* what the service answers them
PairSubmits ==
  {Response(202, ObjText(AcceptedBody)), Response(202, ObjText(SyncBodyNoExtraction)),
   Response(500, ObjText([message |-> "service failure"]))}
PairStatuses ==
  {TransportError} \cup
  {Response(200, ObjText(StatusBody(s))) : s \in {"processing", "processed", "error"}}
PairRetrieves(sresp) ==
  IF AsksRetrieve(sresp) THEN {TransportError, Response(200, ObjText(Payload))}
  ELSE {TransportError}
PairInputs ==
  UNION {[sresp : {sresp}, sdur : CallTimes, rresp : PairRetrieves(sresp),
          rdur : RetrieveTimes(sresp)] : sresp \in PairStatuses}

\* the locals of a whisper after its submit stage
StartOp(a, resp, dur) ==
  LET stage == SubmitStage(a, TRUE, resp)
      poll == stage.kind = "poll"
  IN
  [pc |-> IF poll THEN "polling" ELSE IF stage.kind = "raise" THEN "raised" ELSE "returned",
   a |-> a,
   message |-> IF poll THEN stage.out.value ELSE EmptyDict,
   whisper_hash |-> IF poll THEN JobHandle(stage.out.value) ELSE "",
   now |-> IF Sent(stage) THEN dur ELSE 0,
   start_time |-> IF poll THEN dur ELSE 0,
   outcome |-> IF poll THEN NoOutcome ELSE stage.out]

\* the locals after one pass of the polling loop fed with the answers  in
PollOp(l, in) ==
  LET body == LoopBody(l.message, in.sresp, in.rresp) IN
  [l EXCEPT !.now = @ + in.sdur
                      + (IF body.retrieved THEN in.rdur ELSE 0)
                      + (IF body.kind = "continue" THEN PollInterval ELSE 0),
            !.pc = IF body.kind = "continue" THEN "polling"
                   ELSE IF body.kind = "raise" THEN "raised" ELSE "returned",
            !.outcome = IF body.kind = "continue" THEN @ ELSE body.out,
            !.message = IF body.kind = "return" THEN body.out.value ELSE @]

\* the locals after the loop guard has failed
TimeoutOp(l) ==
  [l EXCEPT !.pc = "returned",
            !.message = TimedOutResult(l.message),
            !.outcome = Returned(TimedOutResult(l.message))]

\* mutant: the locals are kept in the client and shared by the operations
Locals_Shared(o) == ops[1].local

\* the local variables operation o works on
Locals(o) == ops[o].local

\* operation o calls whisper
PairStart(o, resp, dur) ==
  /\ Locals(o).pc = "idle"
  /\ ops' = [ops EXCEPT ![o].local = StartOp(PairArgs(o), resp, dur),
                        ![o].sub = <<[resp |-> resp, dur |-> dur]>>]
  /\ UNCHANGED <<fields, solo>>

\* operation o makes one pass of its polling loop
PairPoll(o, in) ==
  /\ Locals(o).pc = "polling"
  /\ LoopGuard(Locals(o).now, Locals(o).start_time, Locals(o).a.wait_timeout)
  /\ ops' = [ops EXCEPT ![o].local = PollOp(Locals(o), in),
                        ![o].hist = Append(@, in)]
  /\ UNCHANGED <<fields, solo>>

\* the loop guard of operation o fails
PairTimeout(o) ==
  /\ Locals(o).pc = "polling"
  /\ ~LoopGuard(Locals(o).now, Locals(o).start_time, Locals(o).a.wait_timeout)
  /\ ops' = [ops EXCEPT ![o].local = TimeoutOp(Locals(o))]
  /\ UNCHANGED <<fields, solo>>

StartEither ==
  \E o \in Operations :
    /\ Locals(o).pc = "idle"
    /\ \E resp \in PairSubmits, dur \in CallTimes : PairStart(o, resp, dur)

PollEither ==
  \E o \in Operations :
    /\ Locals(o).pc = "polling"
    /\ \E in \in PairInputs : PairPoll(o, in)

TimeoutEither == \E o \in Operations : PairTimeout(o)

NextPair ==
  \/ StartEither
  \/ PollEither
  \/ TimeoutEither

SpecPair == Init /\ [][NextPair]_vars

\* whisper run alone from the locals l against the remaining answers
RECURSIVE RunPolls(_, _)
RunPolls(l, answers) ==
  IF l.pc # "polling" THEN l
  ELSE IF ~LoopGuard(l.now, l.start_time, l.a.wait_timeout) THEN TimeoutOp(l)
  ELSE IF answers = <<>> THEN l
  ELSE RunPolls(PollOp(l, Head(answers)), Tail(answers))

\* whisper run alone with the arguments a against the answers it was given
RunAlone(a, sub, answers) ==
  IF sub = <<>> THEN IdleLocals
  ELSE RunPolls(StartOp(a, sub[1].resp, sub[1].dur), answers)

(* ------------- LLMWhispererUtils.redact_key, get_highlight_rect ------- *)
\* A python value handed as api_key: a str (its characters) or an int.
StrValue(s) == [kind |-> "str", val |-> s]
IntValue(n) == [kind |-> "int", val |-> n]

Max(a, b) == IF a > b THEN a ELSE b

\* "x" * n
Mask(n) == [i \in 1..n |-> "x"]

\* s[:n] for n >= 0
Prefix(s, n) == SubSeq(s, 1, Min(n, Len(s)))

\* mutant: nothing of the key is revealed
redact_key_MaskAll(api_key, reveal_length) ==
  IF api_key.kind # "str"
  THEN Raised("ValueError", [message |-> "API key must be a string"])
  ELSE IF reveal_length < 0
  THEN Raised("ValueError", [message |-> "Reveal length must be a non-negative integer"])
  ELSE Returned(Mask(Len(api_key.val)))

\* mutant: a negative reveal_length is let through
redact_key_NoSignCheck(api_key, reveal_length) ==
  IF api_key.kind # "str"
  THEN Raised("ValueError", [message |-> "API key must be a string"])
  ELSE LET redacted_length == Max(Len(api_key.val) - reveal_length, 0)
           revealed_part == Prefix(api_key.val, Max(reveal_length, 0))
           redacted_part == Mask(redacted_length)
       IN Returned(revealed_part \o redacted_part)

\* LLMWhispererUtils.redact_key(api_key, reveal_length)
redact_key(api_key, reveal_length) ==
  IF api_key.kind # "str"
  THEN Raised("ValueError", [message |-> "API key must be a string"])
  ELSE IF reveal_length < 0
  THEN Raised("ValueError", [message |-> "Reveal length must be a non-negative integer"])
  ELSE LET redacted_length == Max(Len(api_key.val) - reveal_length, 0)
           revealed_part == Prefix(api_key.val, reveal_length)
           redacted_part == Mask(redacted_length)
       IN Returned(revealed_part \o redacted_part)

\* mutant: the constructor logs the key as it is
LoggedKey_Raw(api_key) ==
  IF api_key.kind # "str"
  THEN Raised("ValueError", [message |-> "API key must be a string"])
  ELSE Returned(api_key.val)

\* what the v1 constructor writes after "api_key set to "
LoggedKey(api_key) == redact_key(api_key, DefaultRevealLength)

\* int(n / d) for d > 0: the quotient truncated toward zero
Trunc(n, d) == IF n >= 0 THEN n \div d ELSE 0 - ((0 - n) \div d)

\* int((float(a) / float(oh)) * float(th)).  The quotient is rounded to a
\* double before it is multiplied, so the product can fall just below an
\* integer that a * th / oh is exactly, and int() then gives one less in
\* magnitude.  RoundsShort lists the inputs <<|a|, oh, th>> for which
\* IEEE-754 double arithmetic does so, among |a| <= 16, oh in {1, 2, 11, 23}
\* and th in {1, 2, 4, 11, 22, 23, 46}; the operator is used on no others.
RoundsShort == {<<13, 23, 23>>, <<13, 23, 46>>, <<15, 11, 11>>, <<15, 11, 22>>}

\* mutant: the coordinate is not rescaled to the target height
FloatScale_Unscaled(a, oh, th) == a

FloatScale(a, oh, th) ==
  LET exact == Trunc(a * th, oh)
      mag == IF a >= 0 THEN a ELSE 0 - a
  IN
  IF <<mag, oh, th>> \in RoundsShort
  THEN (IF a >= 0 THEN exact - 1 ELSE exact + 1)
  ELSE exact

\* mutant: a page of height 0 gives an empty rect at the top of the page
get_highlight_rect_ZeroGuard(line_metadata, target_width, target_height) ==
  IF line_metadata[4] = 0
  THEN Returned(<<line_metadata[1], 0, 0, target_width, 0>>)
  ELSE Returned(<<line_metadata[1], 0,
                  FloatScale(line_metadata[2] - line_metadata[3], line_metadata[4],
                             target_height),
                  target_width,
                  FloatScale(line_metadata[2], line_metadata[4], target_height)>>)

\* get_highlight_rect(line_metadata, target_width, target_height);
\* float division by an original_height of 0 raises ZeroDivisionError
get_highlight_rect(line_metadata, target_width, target_height) ==
  LET page == line_metadata[1]
      x1 == 0
      y1 == line_metadata[2] - line_metadata[3]
      x2 == target_width
      y2 == line_metadata[2]
      original_height == line_metadata[4]
  IN
  IF original_height = 0 THEN Raised("ZeroDivisionError", <<>>)
  ELSE Returned(<<page, x1, FloatScale(y1, original_height, target_height), x2,
                  FloatScale(y2, original_height, target_height)>>)

\* the keys and reveal lengths tried: every key of up to MaxKeyLen
\* characters over a two-letter alphabet that holds the mask character, the
\* key of the unit tests, and a value that is not a string
KeyChars == {"k", "x"}
TestKey == <<"1", "2", "3", "4", "5", "6", "7", "8", "9", "0", "a", "b", "c", "d", "e", "f">>
Keys ==
  {StrValue(TestKey), IntValue(12345)}
    \cup UNION {{StrValue(s) : s \in [1..n -> KeyChars]} : n \in 0..MaxKeyLen}
RevealLengths == ((0 - 1)..(MaxKeyLen + 1)) \cup {DefaultRevealLength, 6}
RedactArgs == [fn : {"redact_key"}, api_key : Keys, reveal_length : RevealLengths]

\* the key LLMWHISPERER_API_KEY holds when the caller passes none
EnvKeys == {<<>>, TestKey}

\* the line metadata and target sizes tried
Pages == {0, 1}
YBottoms == 0..MaxY
Heights == {0, 1, 3}
OriginalHeights == {0, 1, 2, 11, 23}
TargetWidths == {800}
TargetHeights == {1, 2, 11, 23}
RectArgs ==
  [fn : {"get_highlight_rect"},
   line_metadata : Pages \X YBottoms \X Heights \X OriginalHeights,
   target_width : TargetWidths, target_height : TargetHeights]

\* a call of one of the pure functions with arguments drawn from the sets above
InitPure ==
  /\ client = ""
  /\ args \in RedactArgs \cup RectArgs
  /\ pc = "idle"
  /\ outcome = NoOutcome
  /\ message = EmptyDict
  /\ whisper_hash = ""
  /\ now = 0
  /\ start_time = 0
  /\ log = <<>>
  /\ submit = <<>>
  /\ polls = <<>>
  /\ arrived = <<>>
  /\ retrieves = <<>>
  /\ script = <<>>
  /\ attempts = <<>>
  /\ fields = ClientFields
  /\ ops = [o \in Operations |-> IdleOperation]

\* what the pure calls leave alone
rest == <<message, whisper_hash, now, start_time, submit, polls, arrived, retrieves,
          script, attempts, ops>>

\* redact_key(api_key, reveal_length) is called
RedactKey ==
  /\ pc = "idle"
  /\ args.fn = "redact_key"
  /\ client' = "utils.redact_key"
  /\ outcome' = redact_key(args.api_key, args.reveal_length)
  /\ pc' = IF redact_key(args.api_key, args.reveal_length).raised THEN "raised" ELSE "returned"
  /\ UNCHANGED <<args, log, fields, rest>>

\* redact_key(api_key) is called: reveal_length takes its default
RedactKeyDefault ==
  /\ pc = "idle"
  /\ args.fn = "redact_key"
  /\ client' = "utils.redact_key"
  /\ args' = [fn |-> args.fn, api_key |-> args.api_key]
  /\ outcome' = redact_key(args.api_key, DefaultRevealLength)
  /\ pc' = IF redact_key(args.api_key, DefaultRevealLength).raised THEN "raised" ELSE "returned"
  /\ UNCHANGED <<log, fields, rest>>

\* LLMWhispererClient(api_key=...) is constructed: the key is the argument,
\* or the environment's when the argument is "", and is logged redacted; the
\* text of a log record is kept in the last field of its event
ConstructV1(env) ==
  LET key == IF args.api_key = StrValue(<<>>) THEN StrValue(env) ELSE args.api_key
      shown == LoggedKey(key)
  IN
  /\ pc = "idle"
  /\ args.fn = "redact_key"
  /\ client' = "v1.__init__"
  /\ IF shown.raised
     THEN /\ pc' = "raised"
          /\ outcome' = shown
          /\ log' = <<Event("debug.logging_level", "", 0, ""),
                      Event("debug.base_url", "", 0, "")>>
          /\ fields' = [fields EXCEPT !.api_key = key]
     ELSE /\ pc' = "returned"
          /\ outcome' = NoOutcome
          /\ log' = <<Event("debug.logging_level", "", 0, ""),
                      Event("debug.base_url", "", 0, ""),
                      Event("debug.api_key", "", 0, shown.value)>>
          /\ fields' = [fields EXCEPT !.api_key = key, !.headers = [key |-> key]]
  /\ args' = [fn |-> "__init__", api_key |-> args.api_key]
  /\ UNCHANGED rest

ConstructClient == \E env \in EnvKeys : ConstructV1(env)

\* get_highlight_rect(line_metadata, target_width, target_height) is called
GetHighlightRect ==
  LET rect == get_highlight_rect(args.line_metadata, args.target_width, args.target_height) IN
  /\ pc = "idle"
  /\ args.fn = "get_highlight_rect"
  /\ client' = "v2.get_highlight_rect"
  /\ outcome' = rect
  /\ pc' = IF rect.raised THEN "raised" ELSE "returned"
  /\ UNCHANGED <<args, log, fields, rest>>

NextPure ==
  \/ RedactKey
  \/ RedactKeyDefault
  \/ ConstructClient
  \/ GetHighlightRect

SpecPure == InitPure /\ [][NextPure]_vars

(* ===================== properties of the clients ====================== *)
\* the call is over
Done == pc \in {"returned", "raised"}

\* whisper returned a dict to its caller
ReturnedDict == pc = "returned" /\ ~outcome.raised

\* whisper raised LLMWhispererClientException
RaisedClientException ==
  pc = "raised" /\ outcome.raised /\ outcome.exc = "LLMWhispererClientException"

\* the submit request was sent and answered with this status code
SubmitAnswered(code) ==
  Len(submit) = 1 /\ ~submit[1].err /\ submit[1].status_code = code

\* a blocking whisper: the 202 body carries a job handle and the caller waits
Blocking ==
  /\ client = "v2"
  /\ SubmitAnswered(202)
  /\ args.wait_for_completion
  /\ submit[1].text.kind = "obj"
  /\ Has(submit[1].text.val, "whisper_hash")

\* the job status a status response reports ("" when the call failed)
ReportedStatus(r) ==
  IF ~r.err /\ r.status_code = 200 THEN r.text.val.status ELSE ""

\* the i-th .. j-th polls all reported a status of the set S
PollsReport(i, j, S) == \A n \in i..j : ReportedStatus(polls[n]) \in S

\* extraction of a returned dict ({} when the key is absent)
ExtractionOf(d) == IF Has(d, "extraction") THEN d.extraction ELSE EmptyDict
StatusOf(d) == IF Has(d, "status") THEN d.status ELSE ""

\* number of events of one kind in the trace of the call
Count(op) == Cardinality({i \in 1..Len(log) : log[i].op = op})
HttpCalls == Count("submit") + Count("status") + Count("retrieve")

\* a retrieve answered 200
RetrieveOk(r) == ~r.err /\ r.status_code = 200

\* C1: in a blocking whisper, polls that report accepted / processing keep
\* the operation polling (it leaves the loop after them only when the loop
\* guard has failed), and when they are followed by processed and a retrieve
\* answered 200 the operation returns status_code 200, status processed and
\* the retrieve payload as extraction.
C1_PollsThroughToProcessed ==
  Blocking =>
    /\ PollsReport(1, Len(polls), {"accepted", "processing"})
         => \/ pc = "polling"
            \/ /\ pc = "returned"
               /\ now - start_time >= args.wait_timeout
    /\ ( /\ Len(polls) >= 1
         /\ PollsReport(1, Len(polls) - 1, {"accepted", "processing"})
         /\ ReportedStatus(polls[Len(polls)]) = "processed" )
         => /\ Len(retrieves) = 1
            /\ Count("status") = Len(polls)
            /\ RetrieveOk(retrieves[1])
                 => /\ ReturnedDict
                    /\ outcome.value.status_code = 200
                    /\ outcome.value.status = "processed"
                    /\ outcome.value.extraction = retrieves[1].text.val

C1_Witness ==
  /\ Blocking
  /\ ReturnedDict
  /\ Len(polls) = 3
  /\ ReportedStatus(polls[1]) = "accepted"
  /\ ReportedStatus(polls[2]) = "processing"
  /\ ReportedStatus(polls[3]) = "processed"
  /\ outcome.value.status_code = 200
  /\ outcome.value.extraction = Payload

\* the statuses on which the polling loop ends
TerminalStatuses == {"processed", "error", "ocr_error"}

C3_JobErrorResult ==
  ( /\ Blocking
    /\ Len(polls) >= 1
    /\ ReportedStatus(polls[Len(polls)]) \in {"error", "ocr_error"} )
    => /\ ReturnedDict
       /\ outcome.value.status_code = ClientError
       /\ outcome.value.status = "error"
       /\ ~NonEmpty(outcome.value.extraction)
       /\ outcome.value.message =
            IF ReportedStatus(polls[Len(polls)]) = "error"
            THEN polls[Len(polls)].text.val.message
            ELSE ReportedStatus(polls[Len(polls)])
       /\ Count("retrieve") = 0
       /\ retrieves = <<>>

C3_Witness ==
  /\ Blocking
  /\ ReturnedDict
  /\ Len(polls) = 2
  /\ ReportedStatus(polls[2]) = "ocr_error"
  /\ outcome.value.status = "error"

\* C4: in a blocking whisper, a status call answered with a non-200 response
\* makes whisper return (not raise) status_code -1, the message "Whisper
\* client operation failed" and an empty extraction.
C4_StatusFailureReturned ==
  ( /\ Blocking
    /\ Len(polls) >= 1
    /\ ~polls[Len(polls)].err
    /\ polls[Len(polls)].status_code # 200 )
    => /\ ReturnedDict
       /\ outcome.value.status_code = ClientError
       /\ outcome.value.message = "Whisper client operation failed"
       /\ ~NonEmpty(outcome.value.extraction)

\* C5: in a blocking whisper, when a poll reports processed and the retrieve
\* is answered with a non-200 response, whisper returns (not raises)
\* status_code -1 and an empty extraction.
C5_RetrieveFailureReturned ==
  ( /\ Blocking
    /\ Len(retrieves) >= 1
    /\ ~retrieves[Len(retrieves)].err
    /\ retrieves[Len(retrieves)].status_code # 200 )
    => /\ ReturnedDict
       /\ outcome.value.status_code = ClientError
       /\ ~NonEmpty(outcome.value.extraction)

\* C6 (as stated): for every dict LLMWhispererClientV2.whisper returns, the
\* extraction is non-empty if and only if status_code is 200 and the status
\* is processed.
C6_ExtractionIffProcessed ==
  (client = "v2" /\ ReturnedDict)
    => ( NonEmpty(ExtractionOf(outcome.value))
           <=> ( /\ outcome.value.status_code = 200
                 /\ StatusOf(outcome.value) = "processed" ) )

\* C6 (amended): for every dict whisper returns after a submit answered 202,
\* the extraction is the retrieve payload when status_code is 200 and the
\* status is processed, and {} otherwise; so there it is non-empty only if
\* status_code is 200 and the job reached processed.
C6_ExtractionAfterAccepted ==
  (client = "v2" /\ ReturnedDict /\ SubmitAnswered(202))
    => /\ Has(outcome.value, "extraction")
       /\ IF outcome.value.status_code = 200 /\ StatusOf(outcome.value) = "processed"
          THEN /\ Len(retrieves) = 1
               /\ RetrieveOk(retrieves[1])
               /\ outcome.value.extraction = retrieves[1].text.val
          ELSE ~NonEmpty(outcome.value.extraction)
       /\ NonEmpty(outcome.value.extraction)
            => /\ outcome.value.status_code = 200
               /\ outcome.value.status = "processed"

C6_Witness ==
  /\ client = "v2"
  /\ ReturnedDict
  /\ SubmitAnswered(202)
  /\ NonEmpty(outcome.value.extraction)
  /\ outcome.value.status_code = 200

\* C7: when the submit is answered 202 and wait_for_completion is false,
\* whisper returns the accepted result (status_code 202, extraction {}, the
\* fields of the decoded body) after exactly one HTTP call, without a status
\* poll, a retrieve or a sleep.
C7_AcceptedReturnsAtOnce ==
  (client = "v2" /\ SubmitAnswered(202) /\ ~args.wait_for_completion)
    => /\ ReturnedDict
       /\ outcome.value.status_code = 202
       /\ ~NonEmpty(ExtractionOf(outcome.value))
       /\ HttpCalls = 1
       /\ Count("status") = 0
       /\ Count("retrieve") = 0
       /\ Count("sleep") = 0

\* C8: when the submit is answered 200, whisper returns the decoded body
\* with status_code 200 and issues no status or retrieve call, whatever
\* wait_for_completion is.
C8_SyncReturnsWithoutPolling ==
  (client = "v2" /\ SubmitAnswered(200))
    => /\ ReturnedDict
       /\ outcome.value.status_code = 200
       /\ Count("status") = 0
       /\ Count("retrieve") = 0

\* C9: LLMWhispererClientV2.whisper called with a non-empty use_webhook and
\* wait_for_completion = true raises a client exception with status_code -1,
\* whatever the other arguments are, before any HTTP request is sent and
\* before any file is opened.
C9_WebhookAndWaitRejected ==
  (client = "v2" /\ args.use_webhook # "" /\ args.wait_for_completion)
    => /\ RaisedClientException
       /\ outcome.value.status_code = ClientError
       /\ outcome.value.message = "Cannot wait for completion when using webhook"
       /\ log = <<>>
       /\ submit = <<>>

C9_Witness ==
  /\ client = "v2"
  /\ args.use_webhook # ""
  /\ args.wait_for_completion
  /\ args.file_path # ""
  /\ args.url = ""
  /\ args.stream = "none"
  /\ RaisedClientException

\* the call named no document source
NoSource == args.url = "" /\ args.file_path = "" /\ args.stream = "none"

\* C10 (as stated): whisper (v1 and v2) called without url, file_path and
\* stream raises a client exception with status_code -1 and the message
\* "Either url, stream or file_path must be provided" before any HTTP
\* request is sent.
C10_NoSourceRejected ==
  (client \in {"v1", "v2"} /\ NoSource)
    => /\ RaisedClientException
       /\ outcome.value.status_code = ClientError
       /\ outcome.value.message = "Either url, stream or file_path must be provided"
       /\ HttpCalls = 0

\* C10 (amended): whisper (v1 and v2) called without url, file_path and
\* stream raises a client exception with status_code -1 before any HTTP
\* request is sent; its message is "Either url, stream or file_path must be
\* provided", except in the v2 client when use_webhook is non-empty and
\* wait_for_completion is true, where the webhook check comes first and the
\* message is "Cannot wait for completion when using webhook".
C10_NoSourceRejectedAmended ==
  (client \in {"v1", "v2"} /\ NoSource)
    => /\ RaisedClientException
       /\ outcome.value.status_code = ClientError
       /\ outcome.value.message =
            IF client = "v2" /\ args.use_webhook # "" /\ args.wait_for_completion
            THEN "Cannot wait for completion when using webhook"
            ELSE "Either url, stream or file_path must be provided"
       /\ HttpCalls = 0
       /\ log = <<>>

C10_Witness ==
  /\ client = "v1"
  /\ NoSource
  /\ RaisedClientException
  /\ outcome.value.message = "Either url, stream or file_path must be provided"

\* the message the transport envelope is specified to decode from a body:
\* the object's own message, the bare JSON string, or the raw text
DecodedMessage(text) == IF text.kind = "obj" THEN text.val.message ELSE text.val

\* the submit request was sent and answered with a status other than 200 / 202
SubmitRejected ==
  /\ client = "v2"
  /\ Len(submit) = 1
  /\ ~submit[1].err
  /\ submit[1].status_code \notin {200, 202}

\* C11: when the submit response status is neither 200 nor 202, whisper
\* raises a client exception whose payload carries the decoded body's
\* message, the response's status code as status_code and an empty
\* extraction, and no status poll or retrieve call follows.
C11_SubmitRejectedRaises ==
  SubmitRejected
    => /\ RaisedClientException
       /\ outcome.value.message = DecodedMessage(submit[1].text)
       /\ outcome.value.status_code = submit[1].status_code
       /\ outcome.value.extraction = EmptyDict
       /\ Count("status") = 0
       /\ Count("retrieve") = 0

(* ------------------- retries, deadlines and decoding ------------------ *)
\* get_usage_info was called
UsageCalled == client = "v2.get_usage_info"

\* an answer with a 4xx status other than 429
ClientRejection(resp) ==
  ~resp.err /\ resp.status_code >= 400 /\ resp.status_code <= 499 /\ resp.status_code # 429

\* an answer with status 429 or 5xx
ServerFailure(resp) ==
  ~resp.err /\ (resp.status_code = 429 \/ (resp.status_code >= 500 /\ resp.status_code <= 599))

\* a failure the retry policy retries
RetryableFailure(resp) == resp.err \/ ServerFailure(resp)

\* C12: an answer with a 4xx status other than 429 is never retried: for
\* every max_retries exactly one attempt is sent and a client exception is
\* raised at once.
C12_ClientRejectionNotRetried ==
  (UsageCalled /\ ClientRejection(script[1]))
    => /\ Len(attempts) = 1
       /\ RaisedClientException

\* C13: when every attempt is answered 429 or 5xx, exactly max_retries + 1
\* attempts are sent and then the endpoint raises a client exception that
\* carries the last response's decoded body and status code.
C13_ServerFailuresExhaustRetries ==
  ( /\ UsageCalled
    /\ \A i \in 1..(args.max_retries + 1) :
         ServerFailure(script[i]) /\ script[i].text.kind = "obj" )
    => /\ Len(attempts) = args.max_retries + 1
       /\ RaisedClientException
       /\ outcome.value =
            Put(script[args.max_retries + 1].text.val, "status_code",
                script[args.max_retries + 1].status_code)

\* C14: when every attempt fails at transport level, exactly
\* max_retries + 1 attempts are sent (one when max_retries = 0) and then the
\* transport error itself propagates, not a client exception.
C14_TransportFailuresExhaustRetries ==
  ( /\ UsageCalled
    /\ \A i \in 1..(args.max_retries + 1) : script[i].err )
    => /\ Len(attempts) = args.max_retries + 1
       /\ pc = "raised"
       /\ outcome.exc = "ConnectionError"

\* C15: with max_retries = N, when the first k <= N attempts fail retryably
\* and attempt k+1 is answered 200, the call returns the decoded result
\* after exactly k+1 attempts.
C15_RetriesUntilSuccess ==
  UsageCalled =>
    \A k \in 0..args.max_retries :
      ( /\ \A i \in 1..k : RetryableFailure(script[i])
        /\ script[k + 1] = Response(200, ObjText(UsageBody)) )
        => /\ ReturnedDict
           /\ outcome.value = UsageBody
           /\ Len(attempts) = k + 1

\* _send_request was called
EngineCalled == client = "v2._send_request"

\* the last attempt the engine made
LastAttempt == attempts[Len(attempts)]

\* C16: every attempt sent under a deadline is handed the timeout
\* min(caller's timeout, time remaining until the deadline), which is the
\* remaining time whenever that is the smaller; the deadline is fixed at the
\* call, so no attempt's timeout reaches past it.
C16_TimeoutCappedByDeadline ==
  (EngineCalled /\ args.has_deadline) =>
    \A i \in 1..Len(attempts) :
      LET remaining == args.deadline - attempts[i].at IN
      /\ attempts[i].timeout = Min(args.timeout, remaining)
      /\ remaining < args.timeout => attempts[i].timeout = remaining
      /\ attempts[i].at + attempts[i].timeout <= args.deadline

C16_Witness ==
  /\ EngineCalled
  /\ args.has_deadline
  /\ Len(attempts) = 2
  /\ attempts[1].timeout = args.deadline
  /\ args.deadline < args.timeout
  /\ attempts[2].at > 0
  /\ attempts[2].timeout = args.deadline - attempts[2].at

\* C17: under a deadline no attempt is started once the time remaining is
\* <= 0; the engine then stops with the last response it received (or the
\* last transport error), so it stops on a retryable failure either with its
\* budget used up or, the deadline having passed, after fewer than
\* max_retries + 1 attempts.
C17_DeadlineStopsRetries ==
  (EngineCalled /\ args.has_deadline) =>
    /\ \A i \in 1..Len(attempts) : attempts[i].at < args.deadline
    /\ Len(attempts) <= args.max_retries + 1
    /\ Done =>
         /\ outcome = EngineResult(LastAttempt.resp)
         /\ RetryableFailure(LastAttempt.resp)
              => \/ Len(attempts) = args.max_retries + 1
                 \/ /\ now >= args.deadline
                    /\ Len(attempts) < args.max_retries + 1

C17_Witness ==
  /\ EngineCalled
  /\ args.has_deadline
  /\ pc = "returned"
  /\ outcome.value.status_code = 500
  /\ now >= args.deadline
  /\ Len(attempts) = 2
  /\ args.max_retries = 2

\* the timeout handed to the transport with the submit request
SubmitTimeout == log[CHOOSE i \in 1..Len(log) : log[i].op = "submit"].t

\* C18: the timeout of whisper's submit request is
\* min(api_timeout, wait_timeout).
C18_SubmitTimeoutIsMin ==
  (client = "v2" /\ Len(submit) = 1)
    => SubmitTimeout = Min(ApiTimeout, args.wait_timeout)

\* C19: the HTTP calls of one blocking whisper share one deadline derived
\* from wait_timeout: for a positive wait_timeout the time from the call of
\* whisper to its return never exceeds wait_timeout.
C19_WaitTimeoutBoundsCall ==
  (Blocking /\ Done /\ args.wait_timeout > 0)
    => now <= args.wait_timeout

\* C20: decoding is total.  Whatever the body text of a submit answered with
\* an error status or with 202 (the caller not waiting), whisper gives a
\* result or a client exception with message, status_code and extraction,
\* the message being the object's, the bare JSON string or the raw text.
C20_DecodingIsTotal ==
  ( /\ client = "v2"
    /\ Len(submit) = 1
    /\ ~submit[1].err
    /\ submit[1].status_code # 200
    /\ submit[1].status_code = 202 => ~args.wait_for_completion )
    => /\ ReturnedDict \/ RaisedClientException
       /\ Has(outcome.value, "message")
       /\ Has(outcome.value, "status_code")
       /\ Has(outcome.value, "extraction")
       /\ outcome.value.message = DecodedMessage(submit[1].text)

(* ----------------------- ancillary endpoints -------------------------- *)
\* one of the single-exchange endpoints was called
AncillaryCalled ==
  client \in {"v2.get_usage_info", "v2.register_webhook", "v2.get_webhook_details"}

\* the body the transport envelope is specified to decode from a text: the
\* object itself, or the bare string / raw text wrapped as {message: ...}
DecodedBody(text) == IF text.kind = "obj" THEN text.val ELSE [message |-> text.val]

Is2xx(code) == code >= 200 /\ code <= 299

\* C21: an ancillary endpoint raises a client exception carrying the decoded
\* body plus the status code if and only if the response status is not 2xx;
\* for a 2xx status, 201 from register_webhook included, it returns the
\* decoded body.
C21_AncillaryRaisesIffNot2xx ==
  (AncillaryCalled /\ ~attempts[1].resp.err) =>
    LET resp == attempts[1].resp IN
    IF Is2xx(resp.status_code)
    THEN /\ ReturnedDict
         /\ outcome.value = DecodedBody(resp.text)
    ELSE /\ RaisedClientException
         /\ outcome.value = Put(DecodedBody(resp.text), "status_code", resp.status_code)

(* ------------------- job handle, sequencing, sharing ------------------ *)
\* the job handle the 202 submit response carries
SubmittedHandle == submit[1].text.val.whisper_hash

\* C22: within one blocking whisper every status poll and the retrieve call
\* carry exactly the job handle decoded from the 202 submit response, and
\* the handle whisper holds is never any other.
C22_HandleIsTheSubmitted ==
  Blocking =>
    /\ whisper_hash = SubmittedHandle
    /\ \A i \in 1..Len(log) :
         log[i].op \in {"status", "retrieve"} => log[i].hash = SubmittedHandle

C22_Witness ==
  /\ Blocking
  /\ SubmittedHandle = "h2"
  /\ Count("status") = 2
  /\ Count("retrieve") = 1
  /\ \A i \in 1..Len(log) :
       log[i].op \in {"status", "retrieve"} => log[i].hash = "h2"

\* positions in the trace of the HTTP calls of the operation
HttpEvents == {i \in 1..Len(log) : log[i].op \in {"submit", "status", "retrieve"}}

\* C23: within one whisper operation the HTTP calls are strictly
\* sequential.  The submit is the first call and is answered before the
\* first poll; every call has been answered when the next one is sent (the
\* answers consumed are as many as the calls sent, a retrieve directly
\* follows the poll that asked for it, a later poll follows the sleep after
\* the poll before it), and the answers arrive in the order of the calls.
C23_CallsAreSequential ==
  client = "v2" =>
    /\ Len(submit) = Count("submit")
    /\ Len(polls) = Count("status")
    /\ Len(retrieves) = Count("retrieve")
    /\ Count("submit") <= 1
    /\ \A i \in HttpEvents :
         /\ log[i].op # "submit" => \E j \in 1..(i - 1) : log[j].op = "submit"
         /\ log[i].op = "retrieve" => log[i - 1].op = "status"
         /\ log[i].op = "status" => log[i - 1].op \in {"submit", "sleep"}
    /\ Len(arrived) = Len(polls)
    /\ \A n \in 1..Len(arrived) :
         /\ arrived[n] >= start_time
         /\ n > 1 => arrived[n] >= arrived[n - 1] + PollInterval

C23_Witness ==
  /\ Blocking
  /\ Done
  /\ Count("submit") = 1
  /\ Count("status") = 3
  /\ Count("retrieve") = 1
  /\ log[Len(log)].op = "retrieve"
  /\ arrived[3] > arrived[2]

Overwritten == {"status_code", "message", "status", "extraction"}

KeyRecords == {i \in 1..Len(log) : log[i].op = "debug.api_key"}

ConstructedV1 == client = "v1.__init__" /\ fields.api_key.kind = "str"

\* C26 as stated: no log record contains the credential unmasked, for
\* every key value of every length.
C26_LogNeverHoldsTheKey ==
  (ConstructedV1 /\ fields.api_key.val # <<>>) =>
    \A i \in 1..Len(log) :
      log[i].source = "" \/ ~IsSubstring(fields.api_key.val, log[i].source)

\* C26 (amended): the only record that carries the key is the constructor's
\* debug record, and what it carries is the first four characters of the key
\* followed by one 'x' for each remaining character; that text is the key
\* itself exactly when the key has no character other than 'x' after its
\* fourth.
C26_LoggedKeyIsRedacted ==
  ConstructedV1 =>
    LET key == fields.api_key.val IN
    /\ pc = "returned"
    /\ KeyRecords = {3}
    /\ \A i \in (1..Len(log)) \ KeyRecords : log[i].source = ""
    /\ log[3].source = Prefix(key, 4) \o Mask(Max(Len(key) - 4, 0))
    /\ (log[3].source = key) <=> (\A j \in 5..Len(key) : key[j] = "x")

C26_Witness ==
  /\ ConstructedV1
  /\ args.api_key = StrValue(<<>>)
  /\ fields.api_key.val = TestKey
  /\ fields.headers = [key |-> StrValue(TestKey)]
  /\ log[3].source = <<"1", "2", "3", "4">> \o Mask(12)

\* the reveal length of the call: the one passed, or the default
CalledReveal == IF "reveal_length" \in DOMAIN args THEN args.reveal_length ELSE 4

RedactCalled == client = "utils.redact_key"

\* C27: for a string s and 0 <= r <= len(s), redact_key(s, r) has the length
\* of s, starts with s[:r] and is 'x' everywhere after; for r > len(s) it is
\* s; a call that passes no reveal length behaves as one that passes 4.
C27_RedactShape ==
  (RedactCalled /\ args.api_key.kind = "str" /\ CalledReveal >= 0) =>
    LET s == args.api_key.val
        r == CalledReveal
    IN
    /\ ~outcome.raised
    /\ IF r <= Len(s)
       THEN /\ Len(outcome.value) = Len(s)
            /\ SubSeq(outcome.value, 1, r) = SubSeq(s, 1, r)
            /\ \A j \in (r + 1)..Len(s) : outcome.value[j] = "x"
       ELSE outcome.value = s

C27_Witness ==
  /\ RedactCalled
  /\ args.api_key = StrValue(TestKey)
  /\ "reveal_length" \in DOMAIN args
  /\ args.reveal_length = 6
  /\ outcome = Returned(<<"1", "2", "3", "4", "5", "6">> \o Mask(10))

\* C28: redact_key raises ValueError, and returns nothing, when the secret
\* is not a string and when reveal_length < 0; for a string secret and
\* reveal_length >= 0 it returns.
C28_RedactRaisesIffInvalid ==
  RedactCalled =>
    LET invalid == args.api_key.kind # "str" \/ CalledReveal < 0 IN
    /\ outcome.raised <=> invalid
    /\ invalid => (pc = "raised" /\ outcome.exc = "ValueError")
    /\ ~invalid => (pc = "returned" /\ outcome.exc = "")

C28_Witness ==
  /\ RedactCalled
  /\ args.api_key = StrValue(TestKey)
  /\ CalledReveal = 0 - 1
  /\ pc = "raised"
  /\ outcome = Raised("ValueError", [message |-> "Reveal length must be a non-negative integer"])

RectCalled == client = "v2.get_highlight_rect"

\* the coordinate a rescaled exactly: a * th / oh, as an integer
Rescaled(a, oh, th) == Trunc(a * th, oh)

\* C29: for original_height > 0, get_highlight_rect returns
\* (page, 0, (y_bottom - height) * target_height / original_height,
\* target_width, y_bottom * target_height / original_height) as integers,
\* writes no log record and changes no field of the client.
C29_RectIsLinearRescale ==
  (RectCalled /\ args.line_metadata[4] > 0) =>
    LET m == args.line_metadata IN
    /\ outcome = Returned(<<m[1], 0, Rescaled(m[2] - m[3], m[4], args.target_height),
                            args.target_width, Rescaled(m[2], m[4], args.target_height)>>)
    /\ log = <<>>
    /\ fields = ClientFields

\* the rectangle for the same line and width at twice the target height
Doubled == get_highlight_rect(args.line_metadata, args.target_width, 2 * args.target_height)

\* C30 as stated: doubling target_height doubles both y1 and y2.
C30_DoublingDoubles ==
  (RectCalled /\ ~outcome.raised) =>
    /\ Doubled.value[3] = 2 * outcome.value[3]
    /\ Doubled.value[5] = 2 * outcome.value[5]

\* how far the coordinate at twice the height may be from twice the
\* coordinate: the fraction int() cut off is doubled along with the rest
Carry(a) == IF a >= 0 THEN {0, 1} ELSE {0 - 1, 0}

\* C30 (amended): doubling target_height leaves page, x1 and x2 as they
\* are and takes y1 and y2 to twice their value or one further from zero.
C30_DoublingDoublesUpToOne ==
  (RectCalled /\ ~outcome.raised) =>
    LET m == args.line_metadata IN
    /\ ~Doubled.raised
    /\ Doubled.value[1] = outcome.value[1]
    /\ Doubled.value[2] = outcome.value[2]
    /\ Doubled.value[4] = outcome.value[4]
    /\ Doubled.value[3] - 2 * outcome.value[3] \in Carry(m[2] - m[3])
    /\ Doubled.value[5] - 2 * outcome.value[5] \in Carry(m[2])

C30_Witness ==
  /\ RectCalled
  /\ args.line_metadata = <<1, 13, 3, 23>>
  /\ args.target_height = 11
  /\ outcome = Returned(<<1, 0, 4, 800, 6>>)
  /\ Doubled = Returned(<<1, 0, 9, 800, 12>>)

\* the v1 whisper was called with a timeout outside 0..200
TimeoutOutOfRange == args.timeout < 0 \/ args.timeout > 200

\* a client exception raised by the argument checks
ValidationError == RaisedClientException /\ outcome.value.status_code = ClientError

\* C31: the v1 whisper called with timeout < 0 or timeout > 200 raises a
\* client exception with status_code -1 before any HTTP request is sent and
\* before any file is opened; with 0 <= timeout <= 200 and a document
\* source it raises no validation error.
C31_TimeoutRangeChecked ==
  client = "v1" =>
    /\ TimeoutOutOfRange => (ValidationError /\ HttpCalls = 0 /\ log = <<>> /\ submit = <<>>)
    /\ (~TimeoutOutOfRange /\ ~NoSource) => ~ValidationError

C31_Witness ==
  /\ client = "v1"
  /\ args.timeout = 201
  /\ args.url = ""
  /\ args.file_path = "credit_card.pdf"
  /\ ValidationError
  /\ outcome.value.message = "timeout must be between 0 and 200"
  /\ log = <<>>

\* the statuses after which the loop goes round again
NonTerminal == ServiceStatuses \ {s \in ServiceStatuses : StatusBranch(s) # "continue"}

\* the polls that reported a non-terminal status
GoOn == {n \in 1..Len(polls) : ReportedStatus(polls[n]) \in NonTerminal}

\* C32: in a blocking whisper every sleep lasts 5 time units and directly
\* follows a status poll; the first poll directly follows the submit and
\* every later one directly follows the sleep after the poll before it; the
\* polls that are followed by a sleep are those that reported a
\* non-terminal status, so a poll that ends the operation is followed by
\* none; and a poll starts exactly 5 time units after the answer to the
\* poll before it arrived.
C32_OneSleepBetweenPolls ==
  Blocking =>
    /\ \A i \in 1..Len(log) :
         /\ log[i].op = "sleep" =>
              (log[i].t = PollInterval /\ i > 1 /\ log[i - 1].op = "status")
         /\ log[i].op = "status" =>
              /\ i > 1
              /\ \/ log[i - 1].op = "submit"
                 \/ (i > 2 /\ log[i - 1].op = "sleep" /\ log[i - 2].op = "status")
    /\ Count("status") = Len(polls)
    /\ Count("sleep") = Cardinality(GoOn)
    /\ \A n \in 1..Len(polls) : n < Len(polls) => n \in GoOn
    /\ \A n \in 1..(Len(polls) - 1) :
         arrived[n + 1] - (arrived[n] + PollInterval) \in CallTimes

C32_Witness ==
  /\ Blocking
  /\ pc = "returned"
  /\ Len(polls) = 2
  /\ Count("sleep") = 1
  /\ log[Len(log)].op = "retrieve"
  /\ outcome.value.status = "processed"
  /\ arrived = <<1, 8>>

\* the retrieve calls of the operation
RetrieveEvents == {i \in 1..Len(log) : log[i].op = "retrieve"}

\* C33: a whisper operation makes at most one retrieve call; the call
\* directly follows a status poll, made under the same handle, that
\* reported processed, and is the last HTTP call; once the operation has
\* returned or raised it makes no further call.
C33_RetrieveOnceAfterProcessed ==
  /\ [](client = "v2" =>
         /\ Cardinality(RetrieveEvents) <= 1
         /\ Len(retrieves) = Cardinality(RetrieveEvents)
         /\ \A i \in RetrieveEvents :
              /\ i = Len(log)
              /\ i > 1
              /\ log[i - 1].op = "status"
              /\ log[i - 1].hash = log[i].hash
              /\ Len(polls) >= 1
              /\ ReportedStatus(polls[Len(polls)]) = "processed"
              /\ Done)
  /\ [][(client = "v2" /\ Done) => (log' = log /\ polls' = polls /\ retrieves' = retrieves)]_vars

C33_Witness ==
  /\ Blocking
  /\ pc = "returned"
  /\ Len(polls) = 3
  /\ ReportedStatus(polls[1]) = "processing"
  /\ ReportedStatus(polls[2]) = "accepted"
  /\ ReportedStatus(polls[3]) = "processed"
  /\ RetrieveEvents = {Len(log)}
  /\ log[Len(log)].hash = "h2"
  /\ outcome.value.status_code = 200
  /\ outcome.value.extraction = Payload

\* the ways a blocking whisper ends
EndsProcessed ==
  /\ ReturnedDict
  /\ outcome.value.status_code = 200
  /\ outcome.value.message = "Whisper operation completed"
EndsJobError ==
  /\ ReturnedDict
  /\ outcome.value.status_code = ClientError
  /\ StatusOf(outcome.value) = "error"
  /\ Len(polls) >= 1
  /\ ReportedStatus(polls[Len(polls)]) \in ServiceStatuses \ (NonTerminal \cup {"processed"})
EndsFailed ==
  /\ ReturnedDict
  /\ outcome.value.status_code = ClientError
  /\ outcome.value.message = "Whisper client operation failed"
EndsTimedOut ==
  /\ ReturnedDict
  /\ outcome.value.status_code = ClientError
  /\ outcome.value.message = "Whisper client operation timed out"
  /\ StatusOf(outcome.value) # "error"
EndsRaised == pc = "raised" /\ outcome.raised

Endings ==
  {e \in {"processed", "job_error", "failed", "timed_out", "raised"} :
     \/ e = "processed" /\ EndsProcessed
     \/ e = "job_error" /\ EndsJobError
     \/ e = "failed" /\ EndsFailed
     \/ e = "timed_out" /\ EndsTimedOut
     \/ e = "raised" /\ EndsRaised}

\* C34: when every HTTP call returns or raises and the clock advances, a
\* blocking whisper that has entered its polling loop ends, whatever
\* statuses the service reports, and it ends in exactly one of a processed
\* result, a job-error result, a failed result, a timed-out result or a
\* raised exception.
C34_BlockingWhisperTerminates ==
  /\ (Blocking /\ pc = "polling") ~> (Blocking /\ Done)
  /\ [](Blocking => (pc \in {"polling", "returned", "raised"}
                      /\ (Done => Cardinality(Endings) = 1)
                      /\ (~Done => Endings = {})))

C34_Witness ==
  /\ Blocking
  /\ args.wait_timeout = MaxWaitTimeout
  /\ Len(polls) = 3
  /\ \A n \in 1..3 : ReportedStatus(polls[n]) = "unknown"
  /\ Endings = {"timed_out"}

\* ceil(n / d) for d > 0
CeilDiv(n, d) == IF n <= 0 THEN 0 - ((0 - n) \div d) ELSE (n + d - 1) \div d

\* the time at which the n-th status poll was started
PollStart(n) == IF n = 1 THEN start_time ELSE arrived[n - 1] + PollInterval

\* C35: every status poll of a blocking whisper is started while the time
\* elapsed since polling began is strictly less than wait_timeout, so the
\* operation makes at most ceil(wait_timeout / 5) status polls, and when
\* wait_timeout <= 0 it makes none and returns the timed-out result
\* directly after the 202.
C35_PollsBoundedByWaitTimeout ==
  Blocking =>
    /\ \A n \in 1..Len(polls) : PollStart(n) - start_time < args.wait_timeout
    /\ Len(polls) <= Max(CeilDiv(args.wait_timeout, PollInterval), 0)
    /\ (args.wait_timeout <= 0 /\ Done) =>
         /\ polls = <<>>
         /\ log[Len(log)].op = "submit"
         /\ EndsTimedOut

C35_Witness ==
  /\ Blocking
  /\ args.wait_timeout = MaxWaitTimeout
  /\ Len(polls) = CeilDiv(MaxWaitTimeout, PollInterval)
  /\ PollStart(Len(polls)) - start_time = 2 * PollInterval
  /\ EndsProcessed

\* the statuses the loop has no branch for
Unlisted ==
  {s \in ServiceStatuses :
     /\ s \notin {"accepted", "processing", "processed", "error"}
     /\ ~IsSubstring(Chars("error"), Chars(s))}

\* where in the trace the n-th status call is
StatusEvent(n) ==
  CHOOSE i \in 1..Len(log) :
    /\ log[i].op = "status"
    /\ Cardinality({j \in 1..i : log[j].op = "status"}) = n

\* C36: a poll of a blocking whisper that reports a status which is none
\* of accepted, processing, processed, error and does not contain "error"
\* (unknown) is followed by the sleep and does not end the operation: the
\* operation goes on to its next poll or to the timed-out result, and an
\* operation all of whose polls report such a status ends timed out.
C36_UnlistedStatusPollsAgain ==
  Blocking =>
    /\ \A n \in 1..Len(polls) :
         ReportedStatus(polls[n]) \in Unlisted =>
           /\ StatusEvent(n) < Len(log)
           /\ log[StatusEvent(n) + 1] = Event("sleep", "", PollInterval, "")
           /\ (n = Len(polls) /\ Done) => EndsTimedOut
           /\ (n = Len(polls) /\ ~Done) => (pc = "polling" /\ outcome = NoOutcome)
    /\ (Done /\ \A n \in 1..Len(polls) : ReportedStatus(polls[n]) \in Unlisted)
         => EndsTimedOut

C36_Witness ==
  /\ Blocking
  /\ args.wait_timeout = PollInterval
  /\ Len(polls) = 1
  /\ ReportedStatus(polls[1]) = "unknown"
  /\ "unknown" \in Unlisted
  /\ Done
  /\ EndsTimedOut
  /\ log[Len(log)].op = "sleep"

\* the status of the last poll, and the body that reported it
LastStatus == ReportedStatus(polls[Len(polls)])
LastBody == polls[Len(polls)].text.val

\* the status contains "error" without being "error"
Legacy(s) == s # "error" /\ IsSubstring(Chars("error"), Chars(s))

\* C37: when the last poll of a blocking whisper reports a status that
\* contains "error" but is not "error", the returned result has that status
\* string as its message, whether or not the service sent a message; when
\* it reports exactly "error" the message is the service's message; a poll
\* that reports processing or accepted never makes the result a job error.
C37_ErrorMessageSource ==
  (Blocking /\ Len(polls) >= 1) =>
    /\ Legacy(LastStatus) =>
         /\ ReturnedDict
         /\ EndsJobError
         /\ outcome.value.message = LastStatus
    /\ LastStatus = "error" =>
         /\ ReturnedDict
         /\ EndsJobError
         /\ outcome.value.message = LastBody.message
    /\ LastStatus \in {"processing", "accepted"} =>
         /\ ~EndsJobError
         /\ Done => EndsTimedOut

C37_Witness ==
  /\ Blocking
  /\ Len(polls) = 2
  /\ LastBody = LegacyBody
  /\ ~Has(LastBody, "message")
  /\ outcome = Returned(ErrorResult(Put(Put(submit[1].text.val, "status_code", 202),
                                        "extraction", EmptyDict), "ocr_error"))

\* how many document sources the caller supplied
Supplied ==
  Cardinality({k \in {"url", "stream", "file"} :
                 \/ k = "url" /\ args.url # ""
                 \/ k = "stream" /\ args.stream # "none"
                 \/ k = "file" /\ args.file_path # ""})

\* the source the claim says is used
Preferred ==
  IF args.url # "" THEN "url" ELSE IF args.stream # "none" THEN "stream" ELSE "file"

\* the sources of the requests sent
SourcesSent == {log[i].source : i \in {j \in 1..Len(log) : log[j].op = "submit"}}

\* C38: a v2 whisper given more than one document source (and not both a
\* webhook and wait_for_completion) raises no validation error and sends
\* one request, built from the url if it is non-empty, otherwise from the
\* stream; url_in_post is set exactly when the url is used, and file_path
\* is opened only when neither a url nor a stream was given.
C38_OneSourceByPriority ==
  (client = "v2" /\ ~(args.use_webhook # "" /\ args.wait_for_completion)) =>
    /\ Supplied > 1 =>
         /\ ~ValidationError
         /\ Count("submit") = 1
         /\ Count("open") = 0
         /\ Preferred \in {"url", "stream"}
    /\ Supplied >= 1 =>
         /\ SourcesSent \subseteq {Preferred}
         /\ Count("url_in_post") = (IF Preferred = "url" THEN 1 ELSE 0)
         /\ Count("open") = (IF Preferred = "file" THEN 1 ELSE 0)
         /\ \A i \in 1..Len(log) :
              /\ log[i].op = "open" => log[i].source = args.file_path
              /\ log[i].op = "url_in_post" => log[i].source = args.url

C38_Witness ==
  /\ client = "v2"
  /\ args.url = ""
  /\ args.stream = "bytes"
  /\ args.file_path = "credit_card.pdf"
  /\ Supplied = 2
  /\ SourcesSent = {"stream"}
  /\ Count("open") = 0
  /\ Count("url_in_post") = 0
  /\ ReturnedDict

\* C39: get_highlight_rect called with line metadata whose original page
\* height is 0 returns no rect: it raises ZeroDivisionError, whatever the
\* other values are; with a positive original height it returns.
C39_ZeroHeightDivides ==
  RectCalled =>
    /\ args.line_metadata[4] = 0 =>
         (pc = "raised" /\ outcome.raised /\ outcome.exc = "ZeroDivisionError")
    /\ args.line_metadata[4] > 0 => (pc = "returned" /\ ~outcome.raised)

C39_Witness ==
  /\ RectCalled
  /\ args.line_metadata = <<0, 0, 0, 0>>
  /\ pc = "raised"
  /\ outcome = Raised("ZeroDivisionError", <<>>)

====
